---- MODULE Spec2Model ----
(***************************************************************************)
(* Model of actions/actions.py: the two Rasa custom actions                *)
(* AddEventToCalendar ("action_add_event") and GetEvent                    *)
(* ("action_get_event"), the helpers get_calendar_service, add_event and   *)
(* get_events, the persisted credential (token.pickle) and the remote      *)
(* primary calendar they talk to.                                          *)
(*                                                                         *)
(* Handlers are invoked one at a time; one action of the model is one      *)
(* whole run() call.  The outcome of every external call made during the   *)
(* run (pickle load, refresh, interactive login, build, events().list,     *)
(* events().insert) is an input of the action.                             *)
(***************************************************************************)
EXTENDS Integers, Sequences, FiniteSets, TLC

VARIABLES
    calendar,          \* remote primary calendar: sequence of stored events
    token,             \* what token.pickle holds
    handler,           \* which step ran last
    event_name,        \* slot 'event' read by the last Add-Event run
    time_str,          \* slot 'time' read by the last Add-Event run
    event_start_time,  \* local of the last Add-Event run (NoTime if unset)
    event_end_time,    \* local of the last Add-Event run (NoTime if unset)
    listed,            \* what get_events returned in the last run
    messages,          \* dispatcher.utter_message texts of the last run
    returned,          \* list returned by the last run
    calls,             \* external calls of the last run, in order
    raised             \* TRUE iff an exception left the last run()

vars == <<calendar, token, handler, event_name, time_str, event_start_time,
          event_end_time, listed, messages, returned, calls, raised>>

(***************************************************************************)
(* Bounds                                                                  *)
(***************************************************************************)
MaxEvents == 2      \* events the remote calendar holds at most

(***************************************************************************)
(* Slots.  A slot is unset (None) or holds a text.  A time text is held as *)
(* the sequence of numeric fields obtained by cutting it at the            *)
(* separators of '%d/%m/%y %H:%M:%S'; a text of another shape, such as     *)
(* "2024-06-01", is a sequence of another length.                          *)
(***************************************************************************)
NoSlot == [set |-> FALSE]
Slot(v) == [set |-> TRUE, text |-> v]

EventNames == {NoSlot, Slot(""), Slot("Team Sync")}

TimeTexts ==
    { <<>>,                      \* ""
      <<2024, 6, 1>>,            \* "2024-06-01"
      <<1, 6, 24, 9, 0, 0>>,     \* "01/06/24 09:00:00"
      <<1, 6, 24, 9, 30, 0>>,    \* overlaps the one above
      <<1, 6, 24, 10, 0, 0>>,    \* starts where the first one ends
      <<31, 12, 24, 23, 30, 0>>, \* ends in the next year
      <<29, 2, 23, 10, 0, 0>>,   \* no such day
      <<1, 6, 24, 24, 0, 0>> }   \* no such hour

TimeSlots == {NoSlot} \cup { Slot(t) : t \in TimeTexts }

\* Python truthiness of a slot value: None and "" are falsy.
Truthy(slot) == slot.set /\ Len(slot.text) > 0

\* The slot pairs a run is given: a name with every time, and an unset or
\* empty name with an unset and with a well-formed time.
SlotPairs ==
    ({n \in EventNames : Truthy(n)} \X TimeSlots)
    \cup ({n \in EventNames : ~Truthy(n)} \X {NoSlot, Slot(<<1, 6, 24, 9, 0, 0>>)})

(***************************************************************************)
(* datetime                                                                *)
(***************************************************************************)
NoTime == [year |-> 0, month |-> 0, day |-> 0, hour |-> 0, minute |-> 0, second |-> 0]

IsLeap(y) == y % 4 = 0 /\ (y % 100 # 0 \/ y % 400 = 0)

DaysInMonth(y, m) ==
    IF m = 2 THEN (IF IsLeap(y) THEN 29 ELSE 28)
    ELSE IF m \in {4, 6, 9, 11} THEN 30 ELSE 31

DaysBeforeYear(y) == (y - 1) * 365 + (y - 1) \div 4 - (y - 1) \div 100 + (y - 1) \div 400

\* Days of a common year before the first of each month.
DAYS_BEFORE_MONTH == <<0, 31, 59, 90, 120, 151, 181, 212, 243, 273, 304, 334>>

DaysBeforeMonth(y, m) == DAYS_BEFORE_MONTH[m] + (IF m > 2 /\ IsLeap(y) THEN 1 ELSE 0)

\* datetime.toordinal
ToOrdinal(dt) == DaysBeforeYear(dt.year) + DaysBeforeMonth(dt.year, dt.month) + dt.day

\* date.fromordinal: 400-, 100-, 4- and 1-year cycles, then the month
\* estimated as (n + 50) >> 5 and corrected downwards.
FromOrdinal(ordinal) ==
    LET n0   == ordinal - 1
        n400 == n0 \div 146097
        r400 == n0 % 146097
        n100 == r400 \div 36524
        r100 == r400 % 36524
        n4   == r100 \div 1461
        r4   == r100 % 1461
        n1   == r4 \div 365
        n    == r4 % 365
        year == n400 * 400 + 1 + n100 * 100 + n4 * 4 + n1
    IN  IF n1 = 4 \/ n100 = 4
        THEN [year |-> year - 1, month |-> 12, day |-> 31]
        ELSE LET leap  == n1 = 3 /\ (n4 # 24 \/ n100 = 3)
                 guess == (n + 50) \div 32
                 pre   == DAYS_BEFORE_MONTH[guess] + (IF guess > 2 /\ leap THEN 1 ELSE 0)
                 month == IF pre > n THEN guess - 1 ELSE guess
                 before == IF pre > n
                           THEN pre - (DaysInMonth(year, month)) ELSE pre
             IN  [year |-> year, month |-> month, day |-> n - before + 1]

\* strptime that checks the shape of the text but not the range of its
\* fields.
strptime_unchecked(text) ==
    IF Len(text) # 6
    THEN [ok |-> FALSE, ve |-> "time data does not match format '%d/%m/%y %H:%M:%S'"]
    ELSE [ok |-> TRUE,
          dt |-> [year |-> 2000 + text[3], month |-> text[2], day |-> text[1],
                  hour |-> text[4], minute |-> text[5], second |-> text[6]]]

\* datetime.strptime(time_str, '%d/%m/%y %H:%M:%S'): the parsed datetime,
\* or the text of the ValueError.
strptime(text) ==
    IF Len(text) # 6
       \/ text[1] \notin 1..31 \/ text[2] \notin 1..12 \/ text[3] \notin 0..99
       \/ text[4] \notin 0..23 \/ text[5] \notin 0..59 \/ text[6] \notin 0..61
    THEN [ok |-> FALSE, ve |-> "time data does not match format '%d/%m/%y %H:%M:%S'"]
    ELSE LET y == IF text[3] <= 68 THEN 2000 + text[3] ELSE 1900 + text[3] IN
         IF text[1] > DaysInMonth(y, text[2])
         THEN [ok |-> FALSE, ve |-> "day is out of range for month"]
         ELSE IF text[6] > 59
         THEN [ok |-> FALSE, ve |-> "second must be in 0..59"]
         ELSE [ok |-> TRUE,
               dt |-> [year |-> y, month |-> text[2], day |-> text[1],
                       hour |-> text[4], minute |-> text[5], second |-> text[6]]]

\* AddTimedelta with the hour advanced on the clock only: the carry into the
\* date is lost.
AddTimedelta_nocarry(dt, dd, h) ==
    LET d == FromOrdinal(ToOrdinal(dt) + dd) IN
    [year |-> d.year, month |-> d.month, day |-> d.day,
     hour |-> (dt.hour + h) % 24, minute |-> dt.minute, second |-> dt.second]

\* datetime + timedelta(days=d, hours=h): days and seconds are carried
\* separately and normalised with divmod.
AddTimedelta(dt, dd, h) ==
    LET secs == dt.hour * 3600 + dt.minute * 60 + dt.second + h * 3600
        days == ToOrdinal(dt) + dd + secs \div 86400
        rem  == secs % 86400
        d    == FromOrdinal(days)
    IN  [year |-> d.year, month |-> d.month, day |-> d.day,
         hour |-> rem \div 3600, minute |-> (rem % 3600) \div 60, second |-> rem % 60]

\* timedelta(hours=1)
DurationHours == 1

\* timedelta(days=365)
LookAheadDays == 365

Two(n) == IF n < 10 THEN "0" \o ToString(n) ELSE ToString(n)

\* datetime.strftime('%d/%m/%y %H:%M:%S')
strftime(dt) ==
    Two(dt.day) \o "/" \o Two(dt.month) \o "/" \o Two(dt.year % 100) \o " "
    \o Two(dt.hour) \o ":" \o Two(dt.minute) \o ":" \o Two(dt.second)

\* UTC offset pytz gives Asia/Ho_Chi_Minh (constant from 13 June 1975 on;
\* every time the model enumerates is later than that).
UtcOffset == "+07:00"

\* isoformat() of a naive datetime (whole seconds)
naive_isoformat(dt) ==
    ToString(dt.year) \o "-" \o Two(dt.month) \o "-" \o Two(dt.day) \o "T"
    \o Two(dt.hour) \o ":" \o Two(dt.minute) \o ":" \o Two(dt.second)

\* isoformat() of a datetime localized to Asia/Ho_Chi_Minh
isoformat(dt) == naive_isoformat(dt) \o UtcOffset

\* An instant as the remote service orders it: <<day, second of day>> in UTC.
Instant(dt) == <<ToOrdinal(dt), dt.hour * 3600 + dt.minute * 60 + dt.second>>

\* The instant of a wall-clock time of Asia/Ho_Chi_Minh (UTC+7).
LocalInstant(dt) == Instant(AddTimedelta(dt, 0, -7))

Before(a, b) == a[1] < b[1] \/ (a[1] = b[1] /\ a[2] < b[2])

(***************************************************************************)
(* The remote primary calendar.  A stored event is the item the API        *)
(* returns (a dict: the keys present are the record's fields) together     *)
(* with the instants the service filters and orders by, and who made it.   *)
(***************************************************************************)
Stored(item, from, to, by) == [item |-> item, from |-> from, to |-> to, by |-> by]

\* Events other clients of the same calendar create: a timed event with no
\* title, and an all-day event (its start carries 'date', not 'dateTime').
OtherEvents ==
    { Stored([start |-> [dateTime |-> "2024-06-01T09:15:00+07:00"],
              end   |-> [dateTime |-> "2024-06-01T09:45:00+07:00"]],
             LocalInstant([year |-> 2024, month |-> 6, day |-> 1, hour |-> 9, minute |-> 15, second |-> 0]),
             LocalInstant([year |-> 2024, month |-> 6, day |-> 1, hour |-> 9, minute |-> 45, second |-> 0]),
             "other"),
      Stored([summary |-> "Holiday",
              start |-> [date |-> "2024-12-31"],
              end   |-> [date |-> "2025-01-01"]],
             LocalInstant([year |-> 2024, month |-> 12, day |-> 31, hour |-> 0, minute |-> 0, second |-> 0]),
             LocalInstant([year |-> 2025, month |-> 1, day |-> 1, hour |-> 0, minute |-> 0, second |-> 0]),
             "other") }

\* datetime.utcnow() at the moment Get-Events runs.
Nows ==
    { [year |-> 2024, month |-> 1, day |-> 1, hour |-> 0, minute |-> 0, second |-> 0],
      [year |-> 2024, month |-> 7, day |-> 1, hour |-> 12, minute |-> 0, second |-> 0] }

RECURSIVE InsertByStart(_, _)
InsertByStart(sorted, e) ==
    IF sorted = <<>> THEN <<e>>
    ELSE IF Before(e.from, Head(sorted).from) THEN <<e>> \o sorted
    ELSE <<Head(sorted)>> \o InsertByStart(Tail(sorted), e)

RECURSIVE OrderByStartTime(_)
OrderByStartTime(es) ==
    IF es = <<>> THEN <<>>
    ELSE InsertByStart(OrderByStartTime(SubSeq(es, 1, Len(es) - 1)), es[Len(es)])

RECURSIVE Items(_)
Items(es) == IF es = <<>> THEN <<>> ELSE <<Head(es).item>> \o Items(Tail(es))

\* events().list(calendarId='primary', timeMin, timeMax, singleEvents=True,
\* orderBy='startTime'): the events that end after timeMin and start before
\* timeMax, by start time.
EventsList(cal, tmin, tmax) ==
    OrderByStartTime(SelectSeq(cal, LAMBDA e : Before(tmin, e.to) /\ Before(e.from, tmax)))

(***************************************************************************)
(* External calls and their outcomes                                       *)
(***************************************************************************)
\* One external call of a run: what was called, with which summary and
\* times, and how it ended ("ok", "HttpError" or "error").
Call(op, arg, t1, t2, res) == [op |-> op, arg |-> arg, t1 |-> t1, t2 |-> t2, res |-> res]

NoExc == [type |-> "", text |-> ""]
Exc(type, text) == [type |-> type, text |-> text]

Tokens == {"absent", "valid", "expired", "invalid"}

\* Outcomes of the external calls a run may make.  "error" is an exception
\* that is neither ValueError nor HttpError.  A call that is not reached has
\* no outcome, so the outcomes are enumerated up to the first call that
\* raises: load, then refresh or login, then build, list only when all of
\* these went well, and insert only when list did not raise.
AllOk ==
    [load |-> "ok", refresh |-> "ok", login |-> "ok", build |-> "ok",
     list |-> "ok", insert |-> "ok"]

Outcomes(tok, inserts) ==
    (IF tok # "absent" THEN {[AllOk EXCEPT !.load = "error"]} ELSE {})
    \cup (IF tok = "expired" THEN {[AllOk EXCEPT !.refresh = "error"]} ELSE {})
    \cup (IF tok \in {"absent", "invalid"}
          THEN {[AllOk EXCEPT !.login = l] : l \in {"error", "ValueError"}} ELSE {})
    \cup {[AllOk EXCEPT !.build = "error"]}
    \cup {[AllOk EXCEPT !.list = "error"]}
    \cup {[AllOk EXCEPT !.list = l, !.insert = i] : l \in {"ok", "HttpError"}, i \in inserts}

\* Outcomes of events().insert: the service refuses what exceeds MaxEvents.
Inserts(cal) ==
    IF Len(cal) < MaxEvents THEN {"ok", "HttpError", "error"} ELSE {"HttpError", "error"}

(***************************************************************************)
(* get_calendar_service                                                    *)
(***************************************************************************)
\* build('calendar', 'v3', credentials=creds) inside its try/except: any
\* exception is swallowed and None is returned.
build_service(tok, cs, o) ==
    [service |-> o.build = "ok", exc |-> NoExc, token |-> tok,
     calls |-> Append(cs, Call("build", "", "", "", o.build))]

\* The result of get_calendar_service(): whether a service handle came back
\* (None otherwise), the exception that left the function if any, what
\* token.pickle holds afterwards, and the calls made.
get_calendar_service(tok, o) ==
    LET cs == IF tok # "absent" THEN <<Call("pickle.load", "", "", "", o.load)>> ELSE <<>> IN
    IF tok # "absent" /\ o.load = "error"
    THEN [service |-> FALSE, exc |-> Exc("UnpicklingError", "pickle data was truncated"),
          token |-> tok, calls |-> cs]
    ELSE IF tok = "valid"
    THEN build_service(tok, cs, o)
    ELSE IF tok = "expired"
    THEN IF o.refresh = "error"
         THEN [service |-> FALSE, exc |-> Exc("RefreshError", "invalid_grant"),
               token |-> tok, calls |-> Append(cs, Call("refresh", "", "", "", o.refresh))]
         ELSE build_service("valid", Append(cs, Call("refresh", "", "", "", o.refresh)), o)
    ELSE IF o.login = "ValueError"
    THEN [service |-> FALSE,
          exc |-> Exc("ValueError", "Client secrets must be for a web or installed app."),
          token |-> tok, calls |-> Append(cs, Call("login", "", "", "", o.login))]
    ELSE IF o.login = "error"
    THEN [service |-> FALSE, exc |-> Exc("FileNotFoundError", "credentials.json"),
          token |-> tok, calls |-> Append(cs, Call("login", "", "", "", o.login))]
    ELSE build_service("valid", Append(cs, Call("login", "", "", "", o.login)), o)

(***************************************************************************)
(* add_event and get_events                                                *)
(***************************************************************************)
\* The body add_event submits.
new_event(name, start, end) ==
    [summary |-> name,
     location |-> "Default Location",
     description |-> "Automatically added event",
     start |-> [dateTime |-> isoformat(start), timeZone |-> "Asia/Ho_Chi_Minh"],
     end   |-> [dateTime |-> isoformat(end), timeZone |-> "Asia/Ho_Chi_Minh"],
     reminders |-> [useDefault |-> TRUE]]

\* add_event that takes the response of a failed insert for a created event.
add_event_truthy(cal, name, start, end, o) ==
    LET body == new_event(name, start, end)
        c    == Call("insert", body.summary, body.start.dateTime, body.end.dateTime, o.insert)
    IN  IF o.insert = "ok"
        THEN [created |-> TRUE, exc |-> NoExc, calls |-> <<c>>,
              calendar |-> Append(cal, Stored(body, LocalInstant(start), LocalInstant(end), "add"))]
        ELSE IF o.insert = "HttpError"
        THEN [created |-> TRUE, exc |-> NoExc, calls |-> <<c>>, calendar |-> cal]
        ELSE [created |-> FALSE, exc |-> Exc("ServerNotFoundError", "Unable to find the server"),
              calls |-> <<c>>, calendar |-> cal]

\* add_event: HttpError is caught and None returned; any other exception
\* leaves the function.  The calendar changes only when the insert succeeds.
add_event(cal, name, start, end, o) ==
    LET body == new_event(name, start, end)
        c    == Call("insert", body.summary, body.start.dateTime, body.end.dateTime, o.insert)
    IN  IF o.insert = "ok"
        THEN [created |-> TRUE, exc |-> NoExc, calls |-> <<c>>,
              calendar |-> Append(cal, Stored(body, LocalInstant(start), LocalInstant(end), "add"))]
        ELSE IF o.insert = "HttpError"
        THEN [created |-> FALSE, exc |-> NoExc, calls |-> <<c>>, calendar |-> cal]
        ELSE [created |-> FALSE, exc |-> Exc("ServerNotFoundError", "Unable to find the server"),
              calls |-> <<c>>, calendar |-> cal]

\* get_events without its except clause: HttpError leaves the function.
get_events_raising(cal, time_min, time_max, tmin, tmax, o) ==
    LET c == Call("list", "", time_min, time_max, o.list) IN
    IF o.list = "ok"
    THEN [events |-> Items(EventsList(cal, tmin, tmax)), exc |-> NoExc, calls |-> <<c>>]
    ELSE IF o.list = "HttpError"
    THEN [events |-> <<>>, exc |-> Exc("HttpError", "HttpError 500"), calls |-> <<c>>]
    ELSE [events |-> <<>>, exc |-> Exc("ServerNotFoundError", "Unable to find the server"),
          calls |-> <<c>>]

\* get_events: HttpError is caught and [] returned; any other exception
\* leaves the function.  tmin, tmax are the instants time_min, time_max denote.
get_events(cal, time_min, time_max, tmin, tmax, o) ==
    LET c == Call("list", "", time_min, time_max, o.list) IN
    IF o.list = "ok"
    THEN [events |-> Items(EventsList(cal, tmin, tmax)), exc |-> NoExc, calls |-> <<c>>]
    ELSE IF o.list = "HttpError"
    THEN [events |-> <<>>, exc |-> NoExc, calls |-> <<c>>]
    ELSE [events |-> <<>>, exc |-> Exc("ServerNotFoundError", "Unable to find the server"),
          calls |-> <<c>>]

\* event['start'].get('dateTime', event['start'].get('date'))
start_of(ev) ==
    IF "dateTime" \in DOMAIN ev.start THEN ev.start.dateTime
    ELSE IF "date" \in DOMAIN ev.start THEN ev.start.date
    ELSE "None"

(***************************************************************************)
(* AddEventToCalendar.run                                                  *)
(***************************************************************************)
AllSlotsReset == "AllSlotsReset"

\* What a run (or the part of it inside the try) leaves behind: the
\* messages uttered, whether a return statement was reached and its value,
\* the exception in flight, and the state it read and wrote.
Ran(msgs, ret, val, exc, cs, cal, tok, st, en, ls) ==
    [messages |-> msgs, ret |-> ret, returned |-> val, exc |-> exc, calls |-> cs,
     calendar |-> cal, token |-> tok, start |-> st, end |-> en, listed |-> ls]

\* The try block of AddEventToCalendar.run, both slots being truthy.
add_event_try(name, text, cal, tok, o) ==
    LET p == strptime(text) IN
    IF ~p.ok
    THEN Ran(<<>>, FALSE, <<>>, Exc("ValueError", p.ve), <<>>, cal, tok, NoTime, NoTime, <<>>)
    ELSE
    LET start    == p.dt
        end      == AddTimedelta(start, 0, DurationHours)
        time_min == isoformat(start)
        time_max == isoformat(end)
        svc      == get_calendar_service(tok, o)
    IN
    IF svc.exc # NoExc
    THEN Ran(<<>>, FALSE, <<>>, svc.exc, svc.calls, cal, svc.token, start, end, <<>>)
    ELSE IF ~svc.service
    THEN Ran(<<"Failed to initialize Google Calendar service.">>, TRUE, <<AllSlotsReset>>,
             NoExc, svc.calls, cal, svc.token, start, end, <<>>)
    ELSE
    LET got == get_events(cal, time_min, time_max, LocalInstant(start), LocalInstant(end), o)
        cs1 == svc.calls \o got.calls
    IN
    IF got.exc # NoExc
    THEN Ran(<<>>, FALSE, <<>>, got.exc, cs1, cal, svc.token, start, end, <<>>)
    ELSE IF Len(got.events) > 0
    THEN LET conflicting_event == got.events[1] IN
         IF "summary" \notin DOMAIN conflicting_event
         THEN Ran(<<>>, FALSE, <<>>, Exc("KeyError", "'summary'"), cs1, cal, svc.token,
                  start, end, got.events)
         ELSE Ran(<<"Cannot create new event because the time slot is already taken by '"
                    \o conflicting_event.summary \o "' at " \o start_of(conflicting_event) \o ".">>,
                  FALSE, <<>>, NoExc, cs1, cal, svc.token, start, end, got.events)
    ELSE
    LET ins == add_event(cal, name, start, end, o)
        cs2 == cs1 \o ins.calls
    IN
    IF ins.exc # NoExc
    THEN Ran(<<>>, FALSE, <<>>, ins.exc, cs2, cal, svc.token, start, end, got.events)
    ELSE IF ins.created
    THEN Ran(<<"Event '" \o name \o "' successfully added to your calendar from "
               \o strftime(start) \o " to " \o strftime(end) \o ".">>,
             FALSE, <<>>, NoExc, cs2, ins.calendar, svc.token, start, end, got.events)
    ELSE Ran(<<"Failed to add the event due to an internal error.">>,
             FALSE, <<>>, NoExc, cs2, ins.calendar, svc.token, start, end, got.events)

\* Every exception the model raises derives from Exception.
IsException(exc) == exc # NoExc

\* The same with the second except clause missing: only ValueError is caught.
add_event_except_value_only(r) ==
    IF r.ret THEN r
    ELSE IF r.exc = NoExc
    THEN [r EXCEPT !.ret = TRUE, !.returned = <<AllSlotsReset>>]
    ELSE IF r.exc.type = "ValueError"
    THEN [r EXCEPT !.messages = Append(@, "Time parsing error: " \o r.exc.text
                        \o ". Please ensure the time is in 'DD/MM/YY HH:MM:SS' format."),
                   !.exc = NoExc, !.ret = TRUE, !.returned = <<AllSlotsReset>>]
    ELSE r

\* The except clauses of AddEventToCalendar.run and the final return.
add_event_except(r) ==
    IF r.ret THEN r
    ELSE IF r.exc = NoExc
    THEN [r EXCEPT !.ret = TRUE, !.returned = <<AllSlotsReset>>]
    ELSE IF r.exc.type = "ValueError"
    THEN [r EXCEPT !.messages = Append(@, "Time parsing error: " \o r.exc.text
                        \o ". Please ensure the time is in 'DD/MM/YY HH:MM:SS' format."),
                   !.exc = NoExc, !.ret = TRUE, !.returned = <<AllSlotsReset>>]
    ELSE IF IsException(r.exc)
    THEN [r EXCEPT !.messages = Append(@, "An unexpected error occurred: " \o r.exc.text),
                   !.exc = NoExc, !.ret = TRUE, !.returned = <<AllSlotsReset>>]
    ELSE r

\* AddEventToCalendar.run(dispatcher, tracker, domain)
AddEventToCalendar_run(name, time, cal, tok, o) ==
    IF ~Truthy(name) \/ ~Truthy(time)
    THEN Ran(<<"Please provide both the event name and time.">>, TRUE, <<AllSlotsReset>>,
             NoExc, <<>>, cal, tok, NoTime, NoTime, <<>>)
    ELSE add_event_except(add_event_try(name.text, time.text, cal, tok, o))

(***************************************************************************)
(* GetEvent.run                                                            *)
(***************************************************************************)
\* The lines built by prepending instead of appending.
RECURSIVE event_lines_reversed(_)
event_lines_reversed(events) ==
    IF events = <<>> THEN <<>>
    ELSE LET event   == Head(events)
             summary == IF "summary" \in DOMAIN event THEN event.summary ELSE "No Title"
         IN  event_lines_reversed(Tail(events)) \o <<start_of(event) \o ": " \o summary>>

\* The loop of GetEvent.run: one line per event.
RECURSIVE event_lines(_)
event_lines(events) ==
    IF events = <<>> THEN <<>>
    ELSE LET event   == Head(events)
             summary == IF "summary" \in DOMAIN event THEN event.summary ELSE "No Title"
         IN  <<start_of(event) \o ": " \o summary>> \o event_lines(Tail(events))

\* "\n".join(lines)
RECURSIVE join_lines(_)
join_lines(lines) ==
    IF lines = <<>> THEN ""
    ELSE IF Len(lines) = 1 THEN lines[1]
    ELSE lines[1] \o "\n" \o join_lines(Tail(lines))

\* The try block of GetEvent.run.
get_event_try(now, cal, tok, o) ==
    LET svc == get_calendar_service(tok, o) IN
    IF svc.exc # NoExc
    THEN Ran(<<>>, FALSE, <<>>, svc.exc, svc.calls, cal, svc.token, NoTime, NoTime, <<>>)
    ELSE IF ~svc.service
    THEN Ran(<<"Failed to initialize Google Calendar service.">>, TRUE, <<>>,
             NoExc, svc.calls, cal, svc.token, NoTime, NoTime, <<>>)
    ELSE
    LET until == AddTimedelta(now, LookAheadDays, 0)
        got   == get_events(cal, naive_isoformat(now) \o "Z", naive_isoformat(until) \o "Z",
                            Instant(now), Instant(until), o)
        cs1   == svc.calls \o got.calls
    IN
    IF got.exc # NoExc
    THEN Ran(<<>>, FALSE, <<>>, got.exc, cs1, cal, svc.token, NoTime, NoTime, <<>>)
    ELSE IF Len(got.events) = 0
    THEN Ran(<<"You have no upcoming events.">>, TRUE, <<>>, NoExc, cs1, cal, svc.token,
             NoTime, NoTime, got.events)
    ELSE Ran(<<"Your upcoming events:\n" \o join_lines(event_lines(got.events))>>,
             FALSE, <<>>, NoExc, cs1, cal, svc.token, NoTime, NoTime, got.events)

\* The same with an except clause that utters nothing.
get_event_except_silent(r) ==
    IF r.ret THEN r
    ELSE IF r.exc = NoExc
    THEN [r EXCEPT !.ret = TRUE, !.returned = <<>>]
    ELSE [r EXCEPT !.exc = NoExc, !.ret = TRUE, !.returned = <<>>]

\* The except clause of GetEvent.run and the final return.
get_event_except(r) ==
    IF r.ret THEN r
    ELSE IF r.exc = NoExc
    THEN [r EXCEPT !.ret = TRUE, !.returned = <<>>]
    ELSE IF IsException(r.exc)
    THEN [r EXCEPT !.messages = Append(@, "An error occurred while fetching events: " \o r.exc.text),
                   !.exc = NoExc, !.ret = TRUE, !.returned = <<>>]
    ELSE r

\* GetEvent.run(dispatcher, tracker, domain)
GetEvent_run(now, cal, tok, o) == get_event_except(get_event_try(now, cal, tok, o))

(***************************************************************************)
(* The state machine                                                       *)
(***************************************************************************)
Init ==
    /\ calendar = <<>>
    /\ token \in Tokens
    /\ handler = "none"
    /\ event_name = NoSlot
    /\ time_str = NoSlot
    /\ event_start_time = NoTime
    /\ event_end_time = NoTime
    /\ listed = <<>>
    /\ messages = <<>>
    /\ returned = <<>>
    /\ calls = <<>>
    /\ raised = FALSE

Finish(name, r) ==
    /\ handler' = name
    /\ calendar' = r.calendar
    /\ token' = r.token
    /\ event_start_time' = r.start
    /\ event_end_time' = r.end
    /\ listed' = r.listed
    /\ messages' = r.messages
    /\ returned' = r.returned
    /\ calls' = r.calls
    /\ raised' = (r.exc # NoExc)

\* The run reaches get_calendar_service only with both slots set and a time
\* that parses; otherwise it makes no external call.
ReachesService(name, time) == Truthy(name) /\ Truthy(time) /\ strptime(time.text).ok

\* The dialogue manager runs action_add_event with the conversation's slots.
AddEvent ==
    \E slots \in SlotPairs :
      \E o \in IF ReachesService(slots[1], slots[2]) THEN Outcomes(token, Inserts(calendar))
                ELSE {AllOk} :
        \E r \in {AddEventToCalendar_run(slots[1], slots[2], calendar, token, o)} :
          /\ event_name' = slots[1]
          /\ time_str' = slots[2]
          /\ Finish("add", r)

\* The dialogue manager runs action_get_event.
GetEvents ==
    \E now \in Nows :
      \E o \in Outcomes(token, {"ok"}) :
        \E r \in {GetEvent_run(now, calendar, token, o)} :
          /\ event_name' = NoSlot
          /\ time_str' = NoSlot
          /\ Finish("get", r)

Idle ==
    /\ event_name' = NoSlot
    /\ time_str' = NoSlot
    /\ event_start_time' = NoTime
    /\ event_end_time' = NoTime
    /\ listed' = <<>>
    /\ messages' = <<>>
    /\ returned' = <<>>
    /\ calls' = <<>>
    /\ raised' = FALSE

\* Another client of the same calendar creates an event.
OtherClientInsert ==
    /\ Len(calendar) < MaxEvents
    /\ \E e \in OtherEvents : calendar' = Append(calendar, e)
    /\ handler' = "other"
    /\ token' = token
    /\ Idle

\* Time passes: the stored credential expires, with or without a refresh
\* token.
CredentialChange ==
    /\ token = "valid"
    /\ token' \in {"expired", "invalid"}
    /\ handler' = "credential"
    /\ calendar' = calendar
    /\ Idle

Next == AddEvent \/ GetEvents \/ OtherClientInsert \/ CredentialChange

Spec == Init /\ [][Next]_vars

(***************************************************************************)
(* Properties                                                              *)
(***************************************************************************)
\* Positions in the last run's call log of the calls of one kind.
CallsOf(op) == { i \in 1..Len(calls) : calls[i].op = op }

\* The last run obtained a service handle.
Acquired == \E i \in CallsOf("build") : calls[i].res = "ok"

\* get_events handed a list back to the last run (the call did not raise).
ListReturned == \E i \in CallsOf("list") : calls[i].res \in {"ok", "HttpError"}

\* The start an API item reports: its dateTime, else its date.
ReportedStart(item) ==
    IF "dateTime" \in DOMAIN item.start THEN item.start.dateTime ELSE item.start.date

\* C1: in an Add-Event run whose list query returned at least one event,
\* insert is never called and the single message names the first returned
\* event's summary and its start (dateTime, else date).
C1_ConflictNamesFirstEvent ==
    (handler = "add" /\ ListReturned /\ Len(listed) > 0) =>
        /\ CallsOf("insert") = {}
        /\ "summary" \in DOMAIN listed[1]
        /\ messages = <<"Cannot create new event because the time slot is already taken by '"
                        \o listed[1].summary \o "' at " \o ReportedStart(listed[1]) \o ".">>

\* Two stored events overlap: each starts before the other ends.
Overlap(a, b) == Before(a.from, b.to) /\ Before(b.from, a.to)

\* C2: the calendar never holds two events inserted by Add-Event whose
\* one-hour windows overlap.
C2_NoOverlappingInserted ==
    \A i, j \in 1..Len(calendar) :
        (i < j /\ calendar[i].by = "add" /\ calendar[j].by = "add")
            => ~Overlap(calendar[i], calendar[j])

\* What one hour after each well-formed time text is, written out.
OneHourLater ==
    [t \in {<<1, 6, 24, 9, 0, 0>>, <<1, 6, 24, 9, 30, 0>>, <<1, 6, 24, 10, 0, 0>>,
            <<31, 12, 24, 23, 30, 0>>} |->
        CASE t = <<1, 6, 24, 9, 0, 0>> ->
               [iso_start |-> "2024-06-01T09:00:00+07:00", iso_end |-> "2024-06-01T10:00:00+07:00",
                from |-> "01/06/24 09:00:00", to |-> "01/06/24 10:00:00"]
          [] t = <<1, 6, 24, 9, 30, 0>> ->
               [iso_start |-> "2024-06-01T09:30:00+07:00", iso_end |-> "2024-06-01T10:30:00+07:00",
                from |-> "01/06/24 09:30:00", to |-> "01/06/24 10:30:00"]
          [] t = <<1, 6, 24, 10, 0, 0>> ->
               [iso_start |-> "2024-06-01T10:00:00+07:00", iso_end |-> "2024-06-01T11:00:00+07:00",
                from |-> "01/06/24 10:00:00", to |-> "01/06/24 11:00:00"]
          [] t = <<31, 12, 24, 23, 30, 0>> ->
               [iso_start |-> "2024-12-31T23:30:00+07:00", iso_end |-> "2025-01-01T00:30:00+07:00",
                from |-> "31/12/24 23:30:00", to |-> "01/01/25 00:30:00"]]

\* Seconds from instant a to instant b.
SecondsBetween(a, b) == (b[1] - a[1]) * 86400 + (b[2] - a[2])

\* The last run is an Add-Event run with a non-empty name and a time that
\* parses, whose list query returned no event and whose insert succeeded.
AddedCase ==
    /\ handler = "add" /\ Truthy(event_name) /\ Truthy(time_str)
    /\ time_str.text \in DOMAIN OneHourLater
    /\ Acquired /\ ListReturned /\ listed = <<>>
    /\ \E i \in CallsOf("insert") : calls[i].res = "ok"

\* C3: with a non-empty name, a time that parses, the service acquired, no
\* event listed and a successful insert, Add-Event calls insert exactly once,
\* after the list query, with that name and an end exactly one hour after
\* the start, and emits one confirmation with the formatted start and end.
C3_InsertsOneHourEvent ==
    AddedCase =>
        LET x == OneHourLater[time_str.text] IN
        /\ Cardinality(CallsOf("insert")) = 1
        /\ Cardinality(CallsOf("list")) = 1
        /\ \A l \in CallsOf("list"), i \in CallsOf("insert") :
              /\ l < i
              /\ calls[l].t1 = x.iso_start /\ calls[l].t2 = x.iso_end
              /\ calls[i].arg = event_name.text
              /\ calls[i].t1 = x.iso_start /\ calls[i].t2 = x.iso_end
        /\ SecondsBetween(Instant(event_start_time), Instant(event_end_time)) = 3600
        /\ Len(calendar) > 0
        /\ LET e == calendar[Len(calendar)] IN
              /\ e.by = "add" /\ e.item.summary = event_name.text
              /\ e.item.start.dateTime = x.iso_start /\ e.item.end.dateTime = x.iso_end
              /\ SecondsBetween(e.from, e.to) = 3600
        /\ messages = <<"Event '" \o event_name.text \o "' successfully added to your calendar from "
                        \o x.from \o " to " \o x.to \o ".">>

\* An event ending in the next year was inserted.
C3_Witness == AddedCase /\ time_str.text = <<31, 12, 24, 23, 30, 0>>

\* Time texts that do not parse against DD/MM/YY HH:MM:SS, and what the
\* parser says about each.
Unparseable ==
    { <<2024, 6, 1>>, <<29, 2, 23, 10, 0, 0>>, <<1, 6, 24, 24, 0, 0>> }

ParserTexts ==
    { "time data does not match format '%d/%m/%y %H:%M:%S'",
      "day is out of range for month" }

BadTimeCase ==
    /\ handler = "add" /\ Truthy(event_name) /\ Truthy(time_str)
    /\ time_str.text \in Unparseable

\* C4: with a name present and a time present that does not parse, Add-Event
\* emits a message starting with "Time parsing error:" and neither acquires
\* the service nor calls list nor insert.
C4_ParseErrorNoCalls ==
    BadTimeCase =>
        /\ \E ve \in ParserTexts :
              messages = <<"Time parsing error: " \o ve
                           \o ". Please ensure the time is in 'DD/MM/YY HH:MM:SS' format.">>
        /\ calls = <<>>

\* A 29th of February of a common year was given.
C4_Witness == BadTimeCase /\ time_str.text = <<29, 2, 23, 10, 0, 0>>

\* C5: every Add-Event run returns normally and returns exactly one
\* reset-all-slots event.
C5_AlwaysResetsSlots ==
    handler = "add" => (~raised /\ returned = <<"AllSlotsReset">>)

\* An Add-Event run that met an error outside the parser and the HTTP layer.
C5_Witness ==
    /\ handler = "add" /\ Len(messages) = 1
    /\ \E txt \in {"Unable to find the server", "invalid_grant", "'summary'"} :
          messages[1] = "An unexpected error occurred: " \o txt

\* "<start>: <summary>", "No Title" standing for an absent summary.
RECURSIVE LinesOf(_)
LinesOf(items) ==
    IF items = <<>> THEN <<>>
    ELSE <<ReportedStart(Head(items)) \o ": "
           \o (IF "summary" \in DOMAIN Head(items) THEN Head(items).summary ELSE "No Title")>>
         \o LinesOf(Tail(items))

RECURSIVE Joined(_)
Joined(lines) ==
    IF Len(lines) = 1 THEN lines[1] ELSE lines[1] \o "\n" \o Joined(Tail(lines))

ListingCase == handler = "get" /\ ListReturned /\ Len(listed) > 0

\* C6 as stated: on a non-empty list Get-Events emits a single message made
\* of one line per event and nothing else, in the order returned, and
\* returns no slot mutations.
C6_OnlyEventLines ==
    ListingCase => (messages = <<Joined(LinesOf(listed))>> /\ returned = <<>>)

\* C6 amended: on a non-empty list Get-Events emits a single message made of
\* the line "Your upcoming events:" followed by one line per event, in the
\* order returned, each "<start>: <summary>" with "No Title" for an absent
\* summary, and returns no slot mutations.
C6_HeaderThenEventLines ==
    ListingCase =>
        /\ messages = <<"Your upcoming events:\n" \o Joined(LinesOf(listed))>>
        /\ returned = <<>>

\* Two events were listed, one of them without a summary.
C6_Witness ==
    /\ ListingCase /\ Len(listed) = 2
    /\ \E i \in 1..2 : "summary" \notin DOMAIN listed[i]

\* C7: with the service acquired and an empty list, Get-Events emits exactly
\* "You have no upcoming events." ; and every Get-Events run returns an
\* empty slot-mutation list.
C7_NoUpcomingEvents ==
    /\ (handler = "get" /\ Acquired /\ ListReturned /\ listed = <<>>)
          => messages = <<"You have no upcoming events.">>
    /\ handler = "get" => (~raised /\ returned = <<>>)

\* Get-Events found nothing to list although the calendar holds an event.
C7_Witness ==
    /\ handler = "get" /\ Acquired /\ ListReturned /\ listed = <<>>
    /\ Len(calendar) > 0

\* C8: every Add-Event or Get-Events run emits exactly one message.
C8_ExactlyOneMessage ==
    handler \in {"add", "get"} => Len(messages) = 1

\* A Get-Events run whose list call raised.
C8_Witness ==
    /\ handler = "get" /\ Len(messages) = 1
    /\ \E i \in CallsOf("list") : calls[i].res = "error"

\* The credential store gave no service handle: build, refresh or login failed.
AcquisitionFailed ==
    \E i \in CallsOf("build") \cup CallsOf("refresh") \cup CallsOf("login") :
        calls[i].res # "ok"

\* C9: whenever service construction, credential refresh or interactive
\* authorization fails, the handler emits "Failed to initialize Google
\* Calendar service." and calls neither list nor insert.
C9_AcquisitionFailureMessage ==
    (handler \in {"add", "get"} /\ AcquisitionFailed) =>
        /\ messages = <<"Failed to initialize Google Calendar service.">>
        /\ CallsOf("list") = {} /\ CallsOf("insert") = {}

\* C10: an HTTP error on list is not visible: get_events returns nothing, so
\* Add-Event goes on to call insert and Get-Events emits "You have no
\* upcoming events."; an HTTP error on insert makes Add-Event emit the
\* internal-error message and leaves the calendar as it was.
C10_ListLenientInsertStrict ==
    [][ /\ ((handler' = "add" /\ \E l \in CallsOf("list")' : calls'[l].res = "HttpError")
              => (/\ listed' = <<>>
                  /\ \E i \in CallsOf("insert")' : \A l \in CallsOf("list")' : l < i))
        /\ ((handler' = "get" /\ \E l \in CallsOf("list")' : calls'[l].res = "HttpError")
              => (/\ listed' = <<>>
                  /\ messages' = <<"You have no upcoming events.">>))
        /\ ((handler' = "add" /\ \E i \in CallsOf("insert")' : calls'[i].res = "HttpError")
              => (/\ messages' = <<"Failed to add the event due to an internal error.">>
                  /\ calendar' = calendar)) ]_vars

\* Add-Event inserted into a window that holds an event after list failed.
C10_Witness ==
    /\ handler = "add"
    /\ \E l \in CallsOf("list") : calls[l].res = "HttpError"
    /\ \E i \in CallsOf("insert") : calls[i].res = "ok"
    /\ \E i, j \in 1..Len(calendar) : i < j /\ Overlap(calendar[i], calendar[j])

====
